---- MODULE Spec2Model ----
(***************************************************************************)
(* Cutting Parameter Calculator (cutting_parameter_app.py).                *)
(*                                                                         *)
(* The program is a Streamlit script: every interaction with a widget      *)
(* re-runs the whole script from its first line with the widgets' new      *)
(* values.  The state is therefore the widgets' values (the session), the  *)
(* module globals and everything rendered by the last run, the files the   *)
(* script wrote and the files the user holds.                              *)
(*                                                                         *)
(* Numbers.  Python floats are modelled as exact non-negative rationals    *)
(*     n/d * 2^p2 * 5^p5     (n, d coprime, both coprime to 10)            *)
(* so that products such as the heat generation, which exceed 32 bits as   *)
(* plain fractions, stay small.  The representation is canonical: equal    *)
(* values are equal records.  Rounding of the binary representation and    *)
(* the range of a double are not modelled; a division by zero raises       *)
(* Python's ZeroDivisionError, as it does for floats and ints alike.       *)
(***************************************************************************)
EXTENDS Integers, Sequences, FiniteSets, TLC

VARIABLES
    materials,        \* module global `materials` as the last run left it
    tool_materials,   \* module global `tool_materials`
    basic,            \* widgets of the Basic tab
    adv,              \* widgets of the Advanced tab (inputs, costs, radio)
    uploaded_file,    \* value of the file_uploader ("none" or a file name)
    clicked,          \* the button whose click triggered the last run
    out,              \* everything the last run computed and rendered
    disk,             \* files written by the script in its working directory
    user_files,       \* files the user holds and can upload
    interactions,     \* number of interactions so far
    call              \* last call of a calculation function (engine harness)

vars == <<materials, tool_materials, basic, adv, uploaded_file, clicked, out,
          disk, user_files, interactions, call>>

session == <<materials, tool_materials, basic, adv, uploaded_file, clicked,
             out, disk, user_files, interactions>>

-----------------------------------------------------------------------------
(* Arithmetic on floats *)

RECURSIVE GCD(_, _)
GCD(a, b) == IF b = 0 THEN a ELSE GCD(b, a % b)

RECURSIVE Pow(_, _)
Pow(b, e) == IF e = 0 THEN 1 ELSE b * Pow(b, e - 1)

\* the exponent of the prime p in m > 0
RECURSIVE Val(_, _)
Val(m, p) == IF m % p = 0 THEN 1 + Val(m \div p, p) ELSE 0

Zero == [n |-> 0, d |-> 1, p2 |-> 0, p5 |-> 0]

\* the float of a1/b1 in lowest terms, given the exponents of 2 and 5 in both
Stripped(a1, b1, a2, a5, b2, b5) ==
    [n  |-> a1 \div (Pow(2, a2) * Pow(5, a5)),
     d  |-> b1 \div (Pow(2, b2) * Pow(5, b5)),
     p2 |-> a2 - b2,
     p5 |-> a5 - b5]

Reduced(a1, b1) ==
    Stripped(a1, b1, Val(a1, 2), Val(a1, 5), Val(b1, 2), Val(b1, 5))

LowestTerms(a, b, g) == Reduced(a \div g, b \div g)

\* the float of the fraction a/b, a >= 0, b > 0
Frac(a, b) == IF a = 0 THEN Zero ELSE LowestTerms(a, b, GCD(a, b))

Num(i) == Frac(i, 1)

ZeroDivisionError == [exc |-> "ZeroDivisionError"]

IsExc(x) == "exc" \in DOMAIN x

IsNum(x) == "n" \in DOMAIN x

\* x * y for non-zero numbers, g1 = gcd(x.n, y.d), g2 = gcd(y.n, x.d)
Cancelled(x, y, g1, g2) ==
    [n  |-> (x.n \div g1) * (y.n \div g2),
     d  |-> (x.d \div g2) * (y.d \div g1),
     p2 |-> x.p2 + y.p2,
     p5 |-> x.p5 + y.p5]

\* x * y; an operand that is a raised exception never yields a value
Mul(x, y) ==
    IF IsExc(x) THEN x
    ELSE IF IsExc(y) THEN y
    ELSE IF x.n = 0 \/ y.n = 0 THEN Zero
    ELSE Cancelled(x, y, GCD(x.n, y.d), GCD(y.n, x.d))

\* x / y: Python raises ZeroDivisionError for a zero divisor
Div(x, y) ==
    IF IsExc(x) THEN x
    ELSE IF IsExc(y) THEN y
    ELSE IF y.n = 0 THEN ZeroDivisionError
    ELSE Mul(x, [n |-> y.d, d |-> y.n, p2 |-> -y.p2, p5 |-> -y.p5])

Max(a, b) == IF a >= b THEN a ELSE b

Min(a, b) == IF a <= b THEN a ELSE b

\* x.n and y.n scaled to the common power 2^m2 * 5^m5 of x and y
AlignedTo(x, y, m2, m5) ==
    [xn |-> x.n * Pow(2, x.p2 - m2) * Pow(5, x.p5 - m5),
     yn |-> y.n * Pow(2, y.p2 - m2) * Pow(5, y.p5 - m5),
     m2 |-> m2, m5 |-> m5]

Aligned(x, y) == AlignedTo(x, y, Min(x.p2, y.p2), Min(x.p5, y.p5))

Shifted(s, m2, m5) == [s EXCEPT !.p2 = @ + m2, !.p5 = @ + m5]

SumAligned(x, y, a) ==
    Shifted(Frac(a.xn * y.d + a.yn * x.d, x.d * y.d), a.m2, a.m5)

\* x + y
Add(x, y) ==
    IF IsExc(x) THEN x
    ELSE IF IsExc(y) THEN y
    ELSE IF x.n = 0 THEN y
    ELSE IF y.n = 0 THEN x
    ELSE SumAligned(x, y, Aligned(x, y))

\* <<quotient, remainder>> of (q * D + r) * 2^e2 * 5^e5 by D, one prime factor
\* at a time so that no intermediate product leaves the integers' range
RECURSIVE Scaled(_, _, _, _, _)
Scaled(q, r, D, e2, e5) ==
    IF e2 > 0 THEN Scaled(q * 2 + (r * 2) \div D, (r * 2) % D, D, e2 - 1, e5)
    ELSE IF e5 > 0 THEN Scaled(q * 5 + (r * 5) \div D, (r * 5) % D, D, e2, e5 - 1)
    ELSE <<q, r>>

\* <<q, r, D>> with x = q + r/D and 0 <= r < D
WholeAndRest(x, D) ==
    Scaled(x.n \div D, x.n % D, D, Max(x.p2, 0), Max(x.p5, 0)) \o <<D>>

Whole(x) ==
    WholeAndRest(x, x.d * Pow(2, Max(-x.p2, 0)) * Pow(5, Max(-x.p5, 0)))

\* rx/Dx < ry/Dy for two different fractions below 1, decimal by decimal
RECURSIVE LessDecimals(_, _, _, _)
LessDecimals(rx, Dx, ry, Dy) ==
    IF (rx * 10) \div Dx # (ry * 10) \div Dy
    THEN (rx * 10) \div Dx < (ry * 10) \div Dy
    ELSE LessDecimals((rx * 10) % Dx, Dx, (ry * 10) % Dy, Dy)

LessWhole(a, b) ==
    IF a[1] # b[1] THEN a[1] < b[1] ELSE LessDecimals(a[2], a[3], b[2], b[3])

\* x < y and x <= y on numbers
Less(x, y) ==
    IF y.n = 0 \/ x = y THEN FALSE
    ELSE IF x.n = 0 THEN TRUE
    ELSE LessWhole(Whole(x), Whole(y))

LessEq(x, y) == x = y \/ Less(x, y)

\* q + c/100 with the hundredths c rounded up or not; 100 hundredths carry
Rounded(q, c, up) ==
    IF up THEN (IF c + 1 = 100 THEN <<q + 1, 0>> ELSE <<q, c + 1>>)
    ELSE <<q, c>>

\* the value q + r/D to two decimals, ties to even
Hundredths(q, c, r2, D) ==
    Rounded(q, c, 2 * r2 > D \/ (2 * r2 = D /\ c % 2 = 1))

Fmt2QR(qr, D) ==
    Hundredths(qr[1], (qr[2] * 100) \div D, (qr[2] * 100) % D, D)

Fmt2Over(x, D) ==
    Fmt2QR(Scaled(x.n \div D, x.n % D, D, Max(x.p2, 0), Max(x.p5, 0)), D)

\* f"{x:.2f}": <<integer part, hundredths>>
Fmt2(x) ==
    Fmt2Over(x, x.d * Pow(2, Max(-x.p2, 0)) * Pow(5, Max(-x.p5, 0)))

-----------------------------------------------------------------------------
(* Material and tooling data *)

MaterialNames ==
    <<"Aluminum 6061", "Steel 1045", "Titanium Grade 5 (Ti-6Al-4V)",
      "Stainless Steel 304", "Cast Iron">>

MaterialsLiteral ==
    [m \in {MaterialNames[i] : i \in 1..Len(MaterialNames)} |->
        CASE m = "Aluminum 6061" ->
                [cutting_speed |-> 300, machinability |-> 250,
                 tensile_strength |-> 310, hardness |-> 95]
          [] m = "Steel 1045" ->
                [cutting_speed |-> 90, machinability |-> 140,
                 tensile_strength |-> 585, hardness |-> 170]
          [] m = "Titanium Grade 5 (Ti-6Al-4V)" ->
                [cutting_speed |-> 50, machinability |-> 26,
                 tensile_strength |-> 950, hardness |-> 349]
          [] m = "Stainless Steel 304" ->
                [cutting_speed |-> 70, machinability |-> 45,
                 tensile_strength |-> 505, hardness |-> 201]
          [] m = "Cast Iron" ->
                [cutting_speed |-> 120, machinability |-> 180,
                 tensile_strength |-> 220, hardness |-> 180]]

ToolMaterialNames == <<"HSS", "Carbide", "Ceramic", "CBN", "Diamond">>

ToolMaterialsLiteral ==
    [t \in {ToolMaterialNames[i] : i \in 1..Len(ToolMaterialNames)} |->
        CASE t = "HSS" -> Frac(10, 10)
          [] t = "Carbide" -> Frac(25, 10)
          [] t = "Ceramic" -> Frac(50, 10)
          [] t = "CBN" -> Frac(70, 10)
          [] t = "Diamond" -> Frac(100, 10)]

-----------------------------------------------------------------------------
(* Calculation functions *)

PI314 == Frac(314, 100)

\* the speed taken in m/min and never converted to mm/min
calculate_rpm_unconverted(cutting_speed, tool_diameter) ==
    Div(cutting_speed, Mul(PI314, tool_diameter))

calculate_rpm(cutting_speed, tool_diameter) ==
    Div(Mul(cutting_speed, Num(1000)), Mul(PI314, tool_diameter))

calculate_feed_rate(feed_per_tooth, number_of_teeth, rpm) ==
    Mul(Mul(feed_per_tooth, number_of_teeth), rpm)

\* a guard that answers 0 for a speed of 0
calculate_tool_life_guarded(cutting_speed, material_factor) ==
    IF cutting_speed = Zero THEN Zero ELSE Div(material_factor, cutting_speed)

calculate_tool_life(cutting_speed, material_factor) ==
    Div(material_factor, cutting_speed)

calculate_cutting_force(tensile_strength, depth_of_cut, tool_diameter) ==
    Div(Mul(Mul(tensile_strength, depth_of_cut), tool_diameter), Num(1000))

calculate_torque(cutting_force, tool_diameter) ==
    Div(Mul(cutting_force, tool_diameter), Num(2000))

HeatFactorEightTenths == Frac(8, 10)

HeatFactor == Frac(5, 10)

calculate_heat_generation(cutting_speed, feed_rate, cutting_force) ==
    Mul(Mul(Mul(HeatFactor, cutting_speed), feed_rate), cutting_force)

WearFactor == Frac(1, 1000)

calculate_tool_wear(cutting_speed, feed_rate, time) ==
    Mul(Mul(Mul(WearFactor, cutting_speed), feed_rate), time)


-----------------------------------------------------------------------------
(* Pieces of the script that are expressions of it rather than functions *)

\* flood coolant from 200 on
cooling_recommendation_from_200(cutting_speed) ==
    IF LessEq(Num(200), cutting_speed)
    THEN "Use flood coolant to prevent excessive heat and prolong tool life."
    ELSE "Air blast or mist cooling is sufficient for this cutting speed."

\* if cutting_speed > 200: flood coolant, else: air blast or mist
cooling_recommendation(cutting_speed) ==
    IF Less(Num(200), cutting_speed)
    THEN "Use flood coolant to prevent excessive heat and prolong tool life."
    ELSE "Air blast or mist cooling is sufficient for this cutting speed."

\* a guard that answers 0 for a feed rate of 0
cycle_time_guarded(depth_of_cut, feed_rate) ==
    IF feed_rate = Zero THEN Zero
    ELSE Mul(Div(depth_of_cut, feed_rate), Num(60))

\* cycle_time = (depth_of_cut / feed_rate) * 60
cycle_time_of(depth_of_cut, feed_rate) ==
    Mul(Div(depth_of_cut, feed_rate), Num(60))

\* the tool cost divided by the hourly rate
estimated_cost_per_rate(cycle_time, machine_hour_rate, tool_cost, material_cost) ==
    Add(Add(Mul(Div(cycle_time, Num(60)), machine_hour_rate),
            Div(tool_cost, machine_hour_rate)),
        material_cost)

\* estimated_cost = (cycle_time / 60) * machine_hour_rate + tool_cost + material_cost
estimated_cost_of(cycle_time, machine_hour_rate, tool_cost, material_cost) ==
    Add(Add(Mul(Div(cycle_time, Num(60)), machine_hour_rate), tool_cost),
        material_cost)

\* an assignment `name = v` of the script in the environment e of the names
\* assigned so far: a raised exception ends the run, and no later statement
\* is executed
Assign(e, name, v) ==
    IF e.exception # "none" THEN e
    ELSE IF IsExc(v) THEN [e EXCEPT !.exception = v.exc]
    ELSE e @@ (name :> v)

-----------------------------------------------------------------------------
(* Data frames and CSV text *)

MaterialColumns ==
    <<"cutting_speed", "machinability", "tensile_strength", "hardness">>

IntCell(i) == [int |-> i]

StrCell(s) == [str |-> s]

\* pd.DataFrame(materials).transpose(): one row per material, indexed by name
DataFrameOf(mats, names) ==
    [index   |-> [i \in 1..Len(names) |-> StrCell(names[i])],
     columns |-> MaterialColumns,
     data    |-> [i \in 1..Len(names) |->
                    [j \in 1..Len(MaterialColumns) |->
                        IntCell(mats[names[i]][MaterialColumns[j]])]]]

\* the text a cell is written as
CellText(c) == IF "int" \in DOMAIN c THEN ToString(c.int) ELSE c.str

\* df.to_csv(index=...): a header line, then one line per row; the index is
\* written as a first column with an empty header, or not at all
to_csv(df, index) ==
    <<(IF index THEN <<"">> ELSE <<>>) \o df.columns>> \o
    [i \in 1..Len(df.data) |->
        (IF index THEN <<CellText(df.index[i])>> ELSE <<>>) \o
        [j \in 1..Len(df.data[i]) |-> CellText(df.data[i][j])]]

\* largest integer a CSV cell is recognised as
MaxCellInt == 1000

\* the value read_csv infers for a cell's text
ParseCell(s) ==
    IF \E i \in 0..MaxCellInt : ToString(i) = s
    THEN IntCell(CHOOSE i \in 0..MaxCellInt : ToString(i) = s)
    ELSE StrCell(s)

\* pd.read_csv(file): the first line names the columns (an empty name becomes
\* "Unnamed: <position>"), the index is 0..n-1
read_csv(csv) ==
    [index   |-> [i \in 1..(Len(csv) - 1) |-> IntCell(i - 1)],
     columns |-> [j \in 1..Len(csv[1]) |->
                    IF csv[1][j] = "" THEN "Unnamed: " \o ToString(j - 1)
                    ELSE csv[1][j]],
     data    |-> [i \in 1..(Len(csv) - 1) |->
                    [j \in 1..Len(csv[i + 1]) |-> ParseCell(csv[i + 1][j])]]]


-----------------------------------------------------------------------------
(* One run of the script *)

NewEnv == [exception |-> "none"]

Ran(e) == e.exception = "none"

(* with tab1: *)

\* cutting_speed = materials[selected_material]["cutting_speed"] * tool_materials[...]
Line65(b, mats, tools, e) ==
    Assign(e, "cutting_speed",
           Mul(Num(mats[b.material].cutting_speed), tools[b.tool_material]))

Line66(b, e) ==
    Assign(e, "rpm", calculate_rpm(e.cutting_speed, b.cutter_diameter))

Line67(b, e) ==
    Assign(e, "feed_rate",
           calculate_feed_rate(b.feed_per_tooth, Num(b.number_of_teeth), e.rpm))

\* st.write of the operation, rpm and feed rate
Lines71_73(b, e) ==
    Assign(e, "display", [operation |-> b.operation,
                          rpm       |-> Fmt2(e.rpm),
                          feed_rate |-> Fmt2(e.feed_rate)])

Tab1(b, mats, tools) ==
    Lines71_73(b, Line67(b, Line66(b, Line65(b, mats, tools, NewEnv))))

(* with tab2: *)

Line88(a, mats, tools, e) ==
    Assign(e, "cutting_speed",
           Mul(Num(mats[a.material].cutting_speed), tools[a.tool_material]))

Line89(a, e) ==
    Assign(e, "rpm", calculate_rpm(e.cutting_speed, a.cutter_diameter))

Line90(a, e) ==
    Assign(e, "feed_rate",
           calculate_feed_rate(a.feed_per_tooth, Num(a.number_of_teeth), e.rpm))

\* tool life, converted from hours to minutes
Line91(a, mats, e) ==
    Assign(e, "tool_life",
           Mul(calculate_tool_life(e.cutting_speed,
                                   Num(mats[a.material].machinability)),
               Num(60)))

Line94(a, mats, e) ==
    Assign(e, "cutting_force",
           calculate_cutting_force(Num(mats[a.material].tensile_strength),
                                   a.depth_of_cut, a.cutter_diameter))

Line95(a, e) ==
    Assign(e, "torque", calculate_torque(e.cutting_force, a.cutter_diameter))

Line96(e) ==
    Assign(e, "heat_generation",
           calculate_heat_generation(e.cutting_speed, e.feed_rate,
                                     e.cutting_force))

\* st.write of the calculated parameters and the advanced calculations
Lines99_108(a, e) ==
    Assign(e, "display", [operation       |-> a.operation,
                          rpm             |-> Fmt2(e.rpm),
                          feed_rate       |-> Fmt2(e.feed_rate),
                          tool_life       |-> Fmt2(e.tool_life),
                          cutting_force   |-> Fmt2(e.cutting_force),
                          torque          |-> Fmt2(e.torque),
                          heat_generation |-> Fmt2(e.heat_generation)])

\* a list-valued assignment; the first exception in the list ends the run
RaisedIn(vs) == \E i \in 1..Len(vs) : IsExc(vs[i])

AssignList(e, name, vs) ==
    IF e.exception # "none" THEN e
    ELSE IF RaisedIn(vs) THEN [e EXCEPT !.exception = "ZeroDivisionError"]
    ELSE e @@ (name :> vs)

\* cutting_speeds = [cutting_speed * i for i in range(1, 6)]
Line112(e) ==
    AssignList(e, "cutting_speeds", [i \in 1..5 |-> Mul(e.cutting_speed, Num(i))])

\* the tool life at each of them
ToolLives(cutting_speeds, material_factor) ==
    [i \in 1..Len(cutting_speeds) |->
        Mul(calculate_tool_life(cutting_speeds[i], material_factor), Num(60))]

Line113(a, mats, e) ==
    AssignList(e, "tool_lives",
               ToolLives(e.cutting_speeds, Num(mats[a.material].machinability)))

Lines124_127(e) ==
    Assign(e, "recommendation", [text |-> cooling_recommendation(e.cutting_speed)])

Line134(a, e) ==
    Assign(e, "cycle_time", cycle_time_of(a.depth_of_cut, e.feed_rate))

Line136(a, e) ==
    Assign(e, "estimated_cost",
           estimated_cost_of(e.cycle_time, a.machine_hour_rate, a.tool_cost,
                             a.material_cost))

Line137(e) ==
    Assign(e, "cost_display", [estimated_cost |-> Fmt2(e.estimated_cost)])

\* the "Material Database Management" section
MaterialDatabase(a, mats, names, up) ==
    CASE a.material_expansion = "View Materials" ->
            [shown |-> "view", frame |-> DataFrameOf(mats, names)]
      [] a.material_expansion = "Import Materials" ->
            IF up.name = "none" THEN [shown |-> "uploader"]
            ELSE [shown |-> "imported",
                  imported_materials |-> read_csv(up.content)]
      [] a.material_expansion = "Export Materials" ->
            [shown    |-> "export",
             written  |-> to_csv(DataFrameOf(mats, names), TRUE),
             download |-> to_csv(DataFrameOf(mats, names), FALSE)]

Lines141_159(a, mats, names, up, e) ==
    Assign(e, "database", MaterialDatabase(a, mats, names, up))

\* if st.button("Generate PDF Report"): the lines of the PDF, in order
Lines162_185(a, click, e) ==
    Assign(e, "report",
           IF click = "report"
           THEN [lines |->
                   <<[label |-> "Operation", text |-> a.operation],
                     [label |-> "Material", text |-> a.material],
                     [label |-> "Tool Material", text |-> a.tool_material],
                     [label |-> "Spindle Speed (RPM)", value |-> Fmt2(e.rpm)],
                     [label |-> "Feed Rate (mm/min)", value |-> Fmt2(e.feed_rate)],
                     [label |-> "Estimated Tool Life (minutes)",
                      value |-> Fmt2(e.tool_life)],
                     [label |-> "Cutting Force (N)",
                      value |-> Fmt2(e.cutting_force)],
                     [label |-> "Torque (Nm)", value |-> Fmt2(e.torque)],
                     [label |-> "Heat Generation (J/s)",
                      value |-> Fmt2(e.heat_generation)]>>]
           ELSE [lines |-> <<>>])

\* slider "Select Simulation Time (minutes)": rendered only in the run a click
\* on "Run Process Simulation" triggered, so it always holds its default
SimulationTime == 10

\* np.linspace(0, simulation_time, num=10)
NumTimeSteps == 10

time_steps(simulation_time) ==
    [k \in 1..NumTimeSteps |->
        Frac((k - 1) * simulation_time, NumTimeSteps - 1)]

\* the loop: every step assigns cutting_force again, from the same inputs
SimulationLoop(e, ts, cutting_force) ==
    [time_steps       |-> ts,
     cutting_forces   |-> [k \in 1..Len(ts) |-> cutting_force],
     tool_wear_values |-> [k \in 1..Len(ts) |->
                              calculate_tool_wear(e.cutting_speed, e.feed_rate,
                                                  ts[k])],
     temperatures     |-> [k \in 1..Len(ts) |->
                              Div(calculate_heat_generation(e.cutting_speed,
                                      e.feed_rate, cutting_force),
                                  Num(1000))]]

\* if st.button("Run Process Simulation")
Lines188_229(a, mats, click, e) ==
    Assign(e, "simulation",
           IF click = "simulate"
           THEN [ran  |-> TRUE,
                 loop |-> SimulationLoop(e, time_steps(SimulationTime),
                            calculate_cutting_force(
                                Num(mats[a.material].tensile_strength),
                                a.depth_of_cut, a.cutter_diameter))]
           ELSE [ran |-> FALSE])

Calculations(a, mats, tools) ==
    Line96(Line95(a, Line94(a, mats, Line91(a, mats, Line90(a, Line89(a,
        Line88(a, mats, tools, NewEnv)))))))

CostEstimation(a, mats, e) ==
    Line137(Line136(a, Line134(a, Lines124_127(Line113(a, mats, Line112(
        Lines99_108(a, e)))))))

Tab2(a, mats, names, tools, up, click) ==
    Lines188_229(a, mats, click, Lines162_185(a, click,
        Lines141_159(a, mats, names, up,
            CostEstimation(a, mats, Calculations(a, mats, tools)))))

\* tab2 follows tab1 unless tab1 raised
Tabs(a, mats, names, tools, up, click, t1) ==
    [tab1 |-> t1,
     tab2 |-> IF Ran(t1) THEN Tab2(a, mats, names, tools, up, click)
              ELSE [exception |-> "not run"]]

\* a script whose upload takes the place of the material table
ScriptImporting(b, a, up, click) ==
    [materials      |-> IF up.name = "none" THEN MaterialsLiteral
                        ELSE read_csv(up.content).data,
     tool_materials |-> ToolMaterialsLiteral,
     rendered       |-> Tabs(a, MaterialsLiteral, MaterialNames,
                             ToolMaterialsLiteral, up, click,
                             Tab1(b, MaterialsLiteral, ToolMaterialsLiteral))]

\* the whole script, top to bottom: the module globals are assigned from
\* their literals (lines 9-23), then come tab1 and tab2
Script(b, a, up, click) ==
    [materials      |-> MaterialsLiteral,
     tool_materials |-> ToolMaterialsLiteral,
     rendered       |-> Tabs(a, MaterialsLiteral, MaterialNames,
                             ToolMaterialsLiteral, up, click,
                             Tab1(b, MaterialsLiteral, ToolMaterialsLiteral))]

\* the working directory after a run that rendered tab2 as t2
Written(dsk, t2) ==
    IF ~Ran(t2) THEN dsk
    ELSE [materials_export |->
              IF t2.database.shown = "export" THEN t2.database.written
              ELSE dsk.materials_export,
          report |->
              IF t2.report.lines # <<>> THEN t2.report.lines ELSE dsk.report]

-----------------------------------------------------------------------------
(* The widgets and the values the model gives them *)

\* number of interactions of a session
MaxInteractions == 2

\* number of interactions of a session that leaves the input widgets at their
\* defaults (material database, report and simulation only)
MaxDatabaseInteractions == 4

Operations == {"Milling", "Turning", "Drilling", "Tapping"}

SetOf(seq) == {seq[i] : i \in 1..Len(seq)}

\* a diameter field that accepts 0
CutterDiametersFromZero == {Zero, Num(1), Num(10)}

\* st.number_input(..., min_value=m, value=v): the minimum and the default
CutterDiameters == {Num(1), Num(10)}

FeedsPerTooth == {Frac(1, 100), Frac(1, 10)}

NumbersOfTeeth == {1, 3, 4}

DepthsOfCut == {Frac(1, 10), Num(2)}

MachineHourRates == {Num(10), Num(50), Num(75)}

ToolCosts == {Num(1), Num(100), Num(150)}

MaterialCosts == {Frac(1, 10), Num(2), Num(5)}

MaterialExpansions == {"View Materials", "Import Materials", "Export Materials"}

BasicWidgets ==
    [operation       |-> Operations,
     material        |-> SetOf(MaterialNames),
     tool_material   |-> SetOf(ToolMaterialNames),
     cutter_diameter |-> CutterDiameters,
     feed_per_tooth  |-> FeedsPerTooth,
     number_of_teeth |-> NumbersOfTeeth]

AdvancedWidgets ==
    [operation       |-> Operations,
     material        |-> SetOf(MaterialNames),
     tool_material   |-> SetOf(ToolMaterialNames),
     cutter_diameter |-> CutterDiameters,
     number_of_teeth |-> NumbersOfTeeth,
     depth_of_cut    |-> DepthsOfCut,
     feed_per_tooth  |-> FeedsPerTooth]

CostWidgets ==
    [machine_hour_rate |-> MachineHourRates,
     tool_cost         |-> ToolCosts,
     material_cost     |-> MaterialCosts]

\* every widget shows its first option or its `value=` on the first run
BasicDefaults ==
    [operation       |-> "Milling",
     material        |-> MaterialNames[1],
     tool_material   |-> ToolMaterialNames[1],
     cutter_diameter |-> Num(10),
     feed_per_tooth  |-> Frac(1, 10),
     number_of_teeth |-> 4]

AdvancedDefaults ==
    [operation          |-> "Milling",
     material           |-> MaterialNames[1],
     tool_material      |-> ToolMaterialNames[1],
     cutter_diameter    |-> Num(10),
     number_of_teeth    |-> 4,
     depth_of_cut       |-> Num(2),
     feed_per_tooth     |-> Frac(1, 10),
     machine_hour_rate  |-> Num(50),
     tool_cost          |-> Num(100),
     material_cost      |-> Num(2),
     material_expansion |-> "View Materials"]

NoFile == [name |-> "none", content |-> <<>>]

\* a material table of the user's own, in the documented column layout
CustomCsv ==
    <<<<"name", "cutting_speed", "machinability", "tensile_strength", "hardness">>,
      <<"Brass C360", "200", "100", "340", "65">>>>

CustomFile == [name |-> "custom_materials.csv", content |-> CustomCsv]

-----------------------------------------------------------------------------
(* The session *)

InitWith(r) ==
    /\ materials = r.materials
    /\ tool_materials = r.tool_materials
    /\ basic = BasicDefaults
    /\ adv = AdvancedDefaults
    /\ uploaded_file = NoFile
    /\ clicked = "none"
    /\ out = r.rendered
    /\ disk = Written([materials_export |-> <<>>, report |-> <<>>],
                      r.rendered.tab2)
    /\ user_files = {CustomFile}
    /\ interactions = 0
    /\ call = [fn |-> "none"]

\* the first run, with every widget at its default
Init == InitWith(Script(BasicDefaults, AdvancedDefaults, NoFile, "none"))

\* sessions are cut after MaxInteractions interactions, or after
\* MaxDatabaseInteractions while every input widget shows its default
SessionBound(b, a) ==
    IF /\ b = BasicDefaults
       /\ [a EXCEPT !.material_expansion = "View Materials"] = AdvancedDefaults
    THEN MaxDatabaseInteractions
    ELSE MaxInteractions

\* the state after a run r of the script
RerunWith(b, a, up, click, r) ==
    /\ interactions < SessionBound(b, a)
    /\ interactions' = interactions + 1
    /\ materials' = r.materials
    /\ tool_materials' = r.tool_materials
    /\ basic' = b
    /\ adv' = a
    /\ uploaded_file' = up
    /\ clicked' = click
    /\ out' = r.rendered
    /\ disk' = Written(disk, r.rendered.tab2)
    /\ UNCHANGED call

\* Streamlit re-runs the script with the widgets' new values
Rerun(b, a, up, click) == RerunWith(b, a, up, click, Script(b, a, up, click))

Rendered == out.tab2.exception = "none"

ChangeBasicInput ==
    \E w \in DOMAIN BasicWidgets : \E v \in BasicWidgets[w] :
        /\ v # basic[w]
        /\ Rerun([basic EXCEPT ![w] = v], adv, uploaded_file, "none")
        /\ UNCHANGED user_files

ChangeAdvancedInput ==
    \E w \in DOMAIN AdvancedWidgets : \E v \in AdvancedWidgets[w] :
        /\ v # adv[w]
        /\ Rerun(basic, [adv EXCEPT ![w] = v], uploaded_file, "none")
        /\ UNCHANGED user_files

ChangeCostInput ==
    \E w \in DOMAIN CostWidgets : \E v \in CostWidgets[w] :
        /\ Rendered
        /\ v # adv[w]
        /\ Rerun(basic, [adv EXCEPT ![w] = v], uploaded_file, "none")
        /\ UNCHANGED user_files

\* the radio; the file_uploader exists only under "Import Materials" and
\* starts empty whenever it appears
SelectMaterialExpansion ==
    \E v \in MaterialExpansions :
        /\ Rendered
        /\ v # adv.material_expansion
        /\ Rerun(basic, [adv EXCEPT !.material_expansion = v], NoFile, "none")
        /\ UNCHANGED user_files

\* the files the user can pick: their own, and the script's export file
Uploadable ==
    user_files \cup
    (IF disk.materials_export = <<>> THEN {}
     ELSE {[name |-> "app/materials_export.csv",
            content |-> disk.materials_export]})

UploadMaterials ==
    \E f \in Uploadable :
        /\ Rendered
        /\ adv.material_expansion = "Import Materials"
        /\ f # uploaded_file
        /\ Rerun(basic, adv, f, "none")
        /\ UNCHANGED user_files

RemoveUpload ==
    /\ Rendered
    /\ adv.material_expansion = "Import Materials"
    /\ uploaded_file # NoFile
    /\ Rerun(basic, adv, NoFile, "none")
    /\ UNCHANGED user_files

\* st.download_button("Download Materials Data", data=...)
DownloadMaterials ==
    /\ Rendered
    /\ adv.material_expansion = "Export Materials"
    /\ user_files' = user_files \cup
           {[name |-> "download/materials_export.csv",
             content |-> out.tab2.database.download]}
    /\ Rerun(basic, adv, uploaded_file, "download")

GeneratePdfReport ==
    /\ Rendered
    /\ Rerun(basic, adv, uploaded_file, "report")
    /\ UNCHANGED user_files

\* st.download_button("Download PDF Report", ...), rendered with the report
DownloadPdfReport ==
    /\ Rendered
    /\ out.tab2.report.lines # <<>>
    /\ Rerun(basic, adv, uploaded_file, "download")
    /\ UNCHANGED user_files

RunProcessSimulation ==
    /\ Rendered
    /\ Rerun(basic, adv, uploaded_file, "simulate")
    /\ UNCHANGED user_files

\* moving the slider re-runs the script with the button no longer clicked
MoveSimulationSlider ==
    /\ Rendered
    /\ out.tab2.simulation.ran
    /\ Rerun(basic, adv, uploaded_file, "none")
    /\ UNCHANGED user_files

Next ==
    \/ ChangeBasicInput
    \/ ChangeAdvancedInput
    \/ ChangeCostInput
    \/ SelectMaterialExpansion
    \/ UploadMaterials
    \/ RemoveUpload
    \/ DownloadMaterials
    \/ GeneratePdfReport
    \/ DownloadPdfReport
    \/ RunProcessSimulation
    \/ MoveSimulationSlider

Spec == Init /\ [][Next]_vars

-----------------------------------------------------------------------------
(* The calculations called on their own, with arguments the form's bounds   *)
(* exclude                                                                  *)

EngineSpeeds ==
    {Zero, Num(50), Num(100), Num(150), Num(200), Num(250), Num(750), Num(3000)}

EngineDiameters == {Zero, Num(1), Num(10)}

EngineFactors == {Num(26), Num(140), Num(250)}

EngineFeedRates == {Zero, Frac(1, 100), Frac(955414, 100)}

\* base cutting speeds of material tables other than the built-in one
EngineBaseSpeeds == {50, 60, 70, 80, 90, 100, 120, 300}

CallCalculateRpm ==
    \E cs \in EngineSpeeds, d \in EngineDiameters :
        /\ call' = [fn |-> "calculate_rpm", args |-> <<cs, d>>,
                    ret |-> calculate_rpm(cs, d)]
        /\ UNCHANGED session

CallCalculateToolLife ==
    \E cs \in EngineSpeeds, f \in EngineFactors :
        /\ call' = [fn |-> "calculate_tool_life", args |-> <<cs, f>>,
                    ret |-> calculate_tool_life(cs, f)]
        /\ UNCHANGED session

\* lines 134-136 at a given feed rate
CostInputs(depth, mhr, tc, mc) ==
    [depth_of_cut |-> depth, machine_hour_rate |-> mhr, tool_cost |-> tc,
     material_cost |-> mc]

CallCostEstimation ==
    \E depth \in DepthsOfCut, f \in EngineFeedRates, mhr \in MachineHourRates,
       tc \in {Num(1), Num(100)}, mc \in {Frac(1, 10), Num(2)} :
        /\ call' = [fn |-> "cost_estimation",
                    args |-> <<depth, f, mhr, tc, mc>>,
                    ret |-> Line136(CostInputs(depth, mhr, tc, mc),
                              Line134(CostInputs(depth, mhr, tc, mc),
                                Assign(NewEnv, "feed_rate", f)))]
        /\ UNCHANGED session

\* lines 88 and 124-127 on a material of base cutting speed `base`
CallCoolingRecommendation ==
    \E base \in EngineBaseSpeeds, t \in SetOf(ToolMaterialNames) :
        /\ call' = [fn |-> "cooling_recommendation", args |-> <<base, t>>,
                    ret |-> Lines124_127(
                              Line88([material |-> "m", tool_material |-> t],
                                     [m \in {"m"} |-> [cutting_speed |-> base]],
                                     ToolMaterialsLiteral, NewEnv))]
        /\ UNCHANGED session

EngineNext ==
    \/ CallCalculateRpm
    \/ CallCalculateToolLife
    \/ CallCostEstimation
    \/ CallCoolingRecommendation

EngineSpec == Init /\ [][EngineNext]_vars

-----------------------------------------------------------------------------
(* Properties *)

\* the inputs of the worked example: Aluminum 6061, Carbide, 10 mm, 0.1 mm, 4
IsExample(w) ==
    /\ w.material = "Aluminum 6061"
    /\ w.tool_material = "Carbide"
    /\ w.cutter_diameter = Num(10)
    /\ w.feed_per_tooth = Frac(1, 10)
    /\ w.number_of_teeth = 4

\* the three formulas on the results e a tab shows for its widgets w; the rpm
\* formula is stated without a division: rpm * 3.14 * d = cutting_speed * 1000
FormulasHold(e, w) ==
    /\ Ran(e)
    /\ e.cutting_speed = Mul(Num(MaterialsLiteral[w.material].cutting_speed),
                             ToolMaterialsLiteral[w.tool_material])
    /\ Mul(Mul(e.rpm, Frac(314, 100)), w.cutter_diameter)
           = Mul(e.cutting_speed, Num(1000))
    /\ e.feed_rate = Mul(Mul(w.feed_per_tooth, Num(w.number_of_teeth)), e.rpm)
    /\ IsExample(w) =>
           /\ e.cutting_speed = Num(750)
           /\ e.display.rpm = <<23885, 35>>
           /\ e.display.feed_rate = <<9554, 14>>

\* C1: in both tabs the calculation yields cutting_speed = base speed of the
\* material x multiplier of the tool material, rpm = (cutting_speed x 1000) /
\* (3.14 x diameter) and feed_rate = feed_per_tooth x teeth x rpm; for
\* Aluminum 6061 with Carbide, 10 mm, 0.1 mm/tooth and 4 teeth that is 750,
\* 23885.35 and 9554.14 to two decimals.
C1_CoreFormulas == FormulasHold(out.tab1, basic) /\ FormulasHold(out.tab2, adv)

\* the worked example has been calculated in the advanced tab
C1_ExampleCalculated == IsExample(adv) /\ Ran(out.tab2) /\ interactions > 0

\* the rows of a material table, each identified by its name
MaterialRowSet(mats) ==
    {[name             |-> StrCell(n),
      cutting_speed    |-> IntCell(mats[n].cutting_speed),
      machinability    |-> IntCell(mats[n].machinability),
      tensile_strength |-> IntCell(mats[n].tensile_strength),
      hardness         |-> IntCell(mats[n].hardness)] : n \in DOMAIN mats}

\* the position of column c in a frame
ColumnOf(df, c) == CHOOSE j \in 1..Len(df.columns) : df.columns[j] = c

\* the rows of a frame, each a record of its columns
FrameRowSet(df) ==
    {[c \in SetOf(df.columns) |-> df.data[i][ColumnOf(df, c)]] :
        i \in 1..Len(df.data)}

\* C2: after an import of rows R the material table used by every later
\* calculation, view and export is exactly R, no built-in row surviving.
C2_ImportReplacesTable ==
    (Rendered /\ out.tab2.database.shown = "imported") =>
        MaterialRowSet(materials) = FrameRowSet(out.tab2.database.imported_materials)

ExportFiles == {"download/materials_export.csv", "app/materials_export.csv"}

\* C3: importing what an export of table T produced yields T again, with the
\* columns name, cutting_speed, machinability, tensile_strength, hardness in
\* that order and each material identified by its name.
C3_ExportImportRoundTrip ==
    (/\ Rendered
     /\ out.tab2.database.shown = "imported"
     /\ uploaded_file.name \in ExportFiles) =>
        /\ out.tab2.database.imported_materials.columns
               = <<"name">> \o MaterialColumns
        /\ FrameRowSet(out.tab2.database.imported_materials)
               = MaterialRowSet(MaterialsLiteral)

\* float("inf"), the sentinel C4 speaks of
Infinity == [inf |-> TRUE]

CostEstimationAtZeroFeed ==
    call.fn = "cost_estimation" /\ call.args[2] = Zero

C5_ZeroDivisorRaises ==
    /\ call.fn = "calculate_rpm" =>
           IF call.args[2] = Zero THEN call.ret = ZeroDivisionError
           ELSE IsNum(call.ret)
    /\ call.fn = "calculate_tool_life" =>
           IF call.args[1] = Zero THEN call.ret = ZeroDivisionError
           ELSE IsNum(call.ret)

C5_ZeroDivisorTried ==
    /\ call.fn = "calculate_tool_life"
    /\ call.args[1] = Zero
    /\ IsExc(call.ret)

CostFields == {"machine_hour_rate", "tool_cost", "material_cost"}

\* a step that leaves the job alone and lowers no cost input
CostInputsRaised ==
    /\ Ran(out.tab2) /\ Ran(out.tab2')
    /\ \A w \in DOMAIN adv \ CostFields : adv'[w] = adv[w]
    /\ \A w \in CostFields : LessEq(adv[w], adv'[w])

\* C6: raising machine_hour_rate, tool_cost or material_cost with the other
\* inputs fixed never lowers estimated_cost.
C6_CostMonotone ==
    [][CostInputsRaised =>
           LessEq(out.tab2.estimated_cost, out.tab2'.estimated_cost)]_vars

\* the machine hour rate stands above its default, and the cost above the cost
\* at the default rate
C6_RateRaised ==
    /\ Ran(out.tab2)
    /\ adv.machine_hour_rate = Num(75)
    /\ Less(estimated_cost_of(out.tab2.cycle_time, Num(50), adv.tool_cost,
                              adv.material_cost),
            out.tab2.estimated_cost)

FloodCoolant ==
    "Use flood coolant to prevent excessive heat and prolong tool life."

AirOrMist ==
    "Air blast or mist cooling is sufficient for this cutting speed."

\* C7: the cooling recommendation is flood coolant when the effective cutting
\* speed (base x multiplier) is strictly above 200 and air or mist otherwise:
\* flood at 250, air or mist at 150 and at exactly 200.
C7_CoolingThreshold ==
    call.fn = "cooling_recommendation" =>
        /\ Ran(call.ret)
        /\ call.ret.cutting_speed
               = Mul(Num(call.args[1]), ToolMaterialsLiteral[call.args[2]])
        /\ call.ret.recommendation.text \in {FloodCoolant, AirOrMist}
        /\ call.ret.recommendation.text = FloodCoolant
               <=> Less(Num(200), call.ret.cutting_speed)
        /\ call.ret.cutting_speed = Num(250)
               => call.ret.recommendation.text = FloodCoolant
        /\ call.ret.cutting_speed \in {Num(150), Num(200)}
               => call.ret.recommendation.text = AirOrMist

C7_AtThreshold ==
    /\ call.fn = "cooling_recommendation"
    /\ call.ret.cutting_speed = Num(200)
    /\ call.ret.recommendation.text = AirOrMist

\* heat = k x cutting_speed x feed_rate x cutting_force, with k = n / 10, in the
\* value computed, the figure displayed, the report line and every simulated
\* temperature (heat / 1000)
HeatEverywhere(n, e) ==
    /\ Ran(e)
    /\ Mul(e.heat_generation, Num(10))
           = Mul(Num(n), Mul(Mul(e.cutting_speed, e.feed_rate), e.cutting_force))
    /\ e.display.heat_generation = Fmt2(e.heat_generation)
    /\ e.report.lines # <<>> =>
           e.report.lines[9] = [label |-> "Heat Generation (J/s)",
                                value |-> Fmt2(e.heat_generation)]
    /\ e.simulation.ran =>
           \A k \in 1..NumTimeSteps :
               Mul(e.simulation.loop.temperatures[k], Num(1000))
                   = e.heat_generation

\* C8 as stated: heat generation is k x cutting_speed x feed_rate x
\* cutting_force with k = 0.8, the same in display, report and simulation.
C8_HeatFactorEightTenths == HeatEverywhere(8, out.tab2)

\* C8, amended: heat generation is k x cutting_speed x feed_rate x
\* cutting_force with k = 0.5; the displayed figure and the report line are
\* that value to two decimals and every simulated temperature is it / 1000.
C8_HeatFactorOneHalf == HeatEverywhere(5, out.tab2)

C8_Simulated == Ran(out.tab2) /\ out.tab2.simulation.ran

DerivedQuantities ==
    {"cutting_speed", "rpm", "feed_rate", "tool_life", "cutting_force",
     "torque", "heat_generation", "tool_lives", "recommendation",
     "cycle_time", "estimated_cost"}

\* what the advanced tab's inputs alone determine, on the built-in tables
FromInputsAlone(a) ==
    CostEstimation(a, MaterialsLiteral,
                   Calculations(a, MaterialsLiteral, ToolMaterialsLiteral))

\* the results e and f agree on every derived quantity
AgreeOn(e, f) == \A q \in DerivedQuantities \cap DOMAIN f : e[q] = f[q]

Positive(x) == IsNum(x) /\ Less(Zero, x)

=============================================================================
